---- MODULE Spec2Model ----
(***************************************************************************)
(* VectorMotionPro: the SvgConverter export pipeline (services/converter)  *)
(* as a state machine.  One step of the model is one run of JavaScript     *)
(* between two suspension points of the converter: the call of convert up  *)
(* to its first pending await, and then one step per event the converter   *)
(* waits for (script load, image decode, pacing timer, GIF capability      *)
(* callbacks, fetch, recorder stop).                                       *)
(*                                                                         *)
(* Numbers: fps is a positive integer, duration is counted in half seconds *)
(* (the step of the duration slider) and scale in halves; a frame time is  *)
(* the exact rational [n, d] = n/d seconds.  IEEE rounding of the doubles  *)
(* is not part of the model.                                               *)
(***************************************************************************)
EXTENDS Integers, Sequences, FiniteSets, TLC

(* ---------------- bounds of the model ---------------- *)
MaxFps == 2
MaxDur2 == 3
MaxRuns == 2
MaxGifProgress == 2
MaxSamples == 1
MaxAnalyses == 1
MaxLoadDelay == 150

(* ---------------- program constants ---------------- *)
DefaultDim == 500

(* updateLocalAnalysis: the dimension used when the text gives none, and   *)
(* suggestedDuration in half seconds                                       *)
LocalDefaultDim == 400

LocalSuggestedDuration2 == 10
CaptureShare == 60
EncodeShare == 40
VideoShare == 100
BitrateCeiling == 25000000
PacingBase == 1000
PacingMargin == 5

Null == "null"
Undefined == "undefined"

(* a JavaScript number of the model: an integer, or NaN *)
Num(v) == [nan |-> FALSE, v |-> v]

NaN == [nan |-> TRUE, v |-> 0]

(* an absent viewBox attribute *)
NoViewBox == <<>>

(* ExportFormat, part_000 lines 1-5 *)
ExportFormat == {"GIF", "MP4", "WEBM"}

(* the ordered preference list of generateVideo *)
mimeTypes == <<"video/mp4;codecs=h264", "video/mp4", "video/webm;codecs=vp9", "video/webm">>

MimeSet == {mimeTypes[k] : k \in 1..Len(mimeTypes)}

(* error messages raised by the converter and by the runtime *)
ErrInvalidSvg == "Invalid SVG structure"
ErrRenderFailed == "Failed to render animation."
ErrImage == "Failed to load SVG frame"
ErrCdn == "Failed to load GIF engine from CDN."
ErrGifInit == "Gifshot failed to initialize after dynamic load."
ErrGifPrefix == "GIF generation failed: "
ErrType == "TypeError: cannot read properties of undefined (reading 'baseVal')"
ErrNotSupported == "NotSupportedError: mimeType is not supported"

(* ---------------- inputs ---------------- *)
(* A markup is described by what the two parsers and the attribute reads   *)
(* of the converter see of it:                                             *)
(*   root    "svg"     an svg element in the SVG namespace                 *)
(*           "svgNoNs" an svg element without xmlns: an SVG element for    *)
(*                     the HTML parser (innerHTML), a plain Element for    *)
(*                     the XML parser (DOMParser)                          *)
(*           "none"    no svg element                                      *)
(*   width, height     the attribute text, Null when absent                *)
(*   viewBox           <<w, h>> of the viewBox attribute, NoViewBox when   *)
(*                     absent                                              *)
(*   smil    "ok" | "raises" | "absent"  what setCurrentTime does          *)
Mk(r, w, h, vb, sm) == [root |-> r, width |-> w, height |-> h, viewBox |-> vb, smil |-> sm]

Markups ==
    { Mk("svg", "400", "400", <<400, 400>>, "ok"),
      Mk("svg", Null, Null, <<200, 100>>, "raises"),
      Mk("svg", Null, Null, NoViewBox, "ok"),
      Mk("svg", "abc", "", NoViewBox, "absent"),
      Mk("svgNoNs", Null, "100", NoViewBox, "ok"),
      Mk("none", Null, Null, NoViewBox, "ok") }

(* the text the editor starts with (App.tsx lines 10-35) *)
DefaultSvg == Mk("svg", "400", "400", <<400, 400>>, "ok")

Scales2 == {3}

(* Markups that carry explicit numeric width and height, for the           *)
(* specification that exercises getDimensions alone                        *)
SizedMarkups ==
    { Mk("svg", "25", "33", NoViewBox, "absent"),
      Mk("svg", "400", "100", <<200, 100>>, "ok"),
      Mk("svgNoNs", "33", "25", NoViewBox, "ok") }

(* the positions of the scale slider (App.tsx): 0.5 to 4 in steps of 0.5 *)
SliderScales2 == 1..8

DimensionSettings ==
    [fps : {1}, dur2 : {1}, scale2 : SliderScales2, quality10 : {10},
     format : ExportFormat, transparent : {FALSE}]

Settings ==
    [fps : 1..MaxFps, dur2 : 1..MaxDur2, scale2 : Scales2, quality10 : {10},
     format : ExportFormat, transparent : BOOLEAN]

(* ---------------- arithmetic ---------------- *)
(* Math.ceil(a / b) for a >= 0, b > 0 *)
Ceil(a, b) == (a + b - 1) \div b

(* Math.round(a / b) for a >= 0, b > 0: halves round up *)
Round(a, b) == (2 * a + b) \div (2 * b)

Rat(n, d) == [n |-> n, d |-> d]

RatEq(x, y) == x.n * y.d = y.n * x.d

(* k * x for an integer k and a rational x *)
RatScale(k, x) == Rat(k * x.n, x.d)

(* ---------------- JavaScript conversions ---------------- *)
(* Truthiness of a string-or-null operand of || *)
Truthy(v) == v # Null /\ v # ""

(* a || b *)
Or(a, b) == IF Truthy(a) THEN a ELSE b

(* Number.prototype.toString on the viewBox numbers of the model *)
NumToString(x) ==
    CASE x = 0 -> "0"
      [] x = 100 -> "100"
      [] x = 200 -> "200"
      [] x = 400 -> "400"
      [] x = 500 -> "500"

(* parseFloat on the strings of the model *)
parseFloat(s) ==
    CASE s = "0" -> Num(0)
      [] s = "25" -> Num(25)
      [] s = "33" -> Num(33)
      [] s = "100" -> Num(100)
      [] s = "200" -> Num(200)
      [] s = "400" -> Num(400)
      [] s = "500" -> Num(500)
      [] OTHER -> NaN

(* svgEl.viewBox.baseVal of an SVGSVGElement: the zero rectangle when the  *)
(* attribute is absent                                                     *)
baseVal(m) == IF m.viewBox = NoViewBox THEN <<0, 0>> ELSE m.viewBox

(* RoundScaled with truncation in place of Math.round *)
RoundScaled_floor(x, scale2) == IF x.nan THEN NaN ELSE Num((x.v * scale2) \div 2)

(* Math.round(x * scale), scale = scale2 / 2 *)
RoundScaled(x, scale2) == IF x.nan THEN NaN ELSE Num(Round(x.v * scale2, 2))

(* ---------------- pure parts of the converter ---------------- *)
(* One of the two reads of getDimensions (lines 99, 100):                  *)
(*   parseFloat(getAttribute(a) || viewBox.baseVal.<a>.toString() || '500') *)
(* attr is the attribute text and k selects the viewBox component.         *)
readDimension(m, attr, k) ==
    parseFloat(Or(attr, Or(NumToString(baseVal(m)[k]), NumToString(DefaultDim))))

(* The read reaches svgEl.viewBox.baseVal and the element has no viewBox   *)
(* property (an svg Element outside the SVG namespace): TypeError          *)
readThrows(m, attr) == m.root = "svgNoNs" /\ ~Truthy(attr)

(* getDimensions before the scaling: [threw, width, height] *)
rawDimensions(m) ==
    IF m.root = "none"
    THEN [threw |-> FALSE, width |-> Num(DefaultDim), height |-> Num(DefaultDim)]
    ELSE IF readThrows(m, m.width) \/ readThrows(m, m.height)
    THEN [threw |-> TRUE, width |-> NaN, height |-> NaN]
    ELSE [threw |-> FALSE,
          width |-> readDimension(m, m.width, 1),
          height |-> readDimension(m, m.height, 2)]

getDimensions(m, scale2) ==
    LET raw == rawDimensions(m)
    IN  [threw |-> raw.threw,
         width |-> RoundScaled(raw.width, scale2),
         height |-> RoundScaled(raw.height, scale2)]

(* canvas.width = x: the conversion to unsigned long maps NaN to 0 *)
ToCanvasSize(x) == IF x.nan THEN 0 ELSE x.v

(* totalFramesOf with Math.floor in place of Math.ceil *)
totalFramesOf_floor(s) == (s.dur2 * s.fps) \div 2

(* Math.ceil(settings.duration * settings.fps) *)
totalFramesOf(s) == Ceil(s.dur2 * s.fps, 2)

(* 1 / settings.fps *)
frameDurationOf(s) == Rat(1, s.fps)

(* i * frameDuration *)
frameTime(i, s) == RatScale(i, frameDurationOf(s))

(* Math.round((i / totalFrames) * 60) *)
gifCaptureProgress(i, total) == Round(i * CaptureShare, total)

(* 60 + Math.round(p * 40), p = p4 / 4 *)
gifEncodeProgress(p4) == CaptureShare + Round(p4 * EncodeShare, 4)

(* Math.round((i / totalFrames) * 100) *)
videoProgress(i, total) == Round(i * VideoShare, total)

(* find that keeps the last supported entry instead of the first *)
RECURSIVE find_last(_, _)
find_last(list, supported) ==
    IF list = <<>> THEN Undefined
    ELSE IF list[Len(list)] \in supported THEN list[Len(list)]
    ELSE find_last(SubSeq(list, 1, Len(list) - 1), supported)

(* mimeTypes.find(m => MediaRecorder.isTypeSupported(m)) *)
RECURSIVE find(_, _)
find(list, supported) ==
    IF list = <<>> THEN Undefined
    ELSE IF Head(list) \in supported THEN Head(list)
    ELSE find(Tail(list), supported)

(* ... || 'video/webm' *)
selectMime(supported) ==
    LET m == find(mimeTypes, supported)
    IN  IF m = Undefined THEN "video/webm" ELSE m

(* ---------------- the metadata hint (services/geminiService) ---------- *)
(* durations are in half seconds *)
DefaultDuration2 == 8
DefaultFps == 30
FallbackDuration2 == 10
DurationCap2 == 20

(* the SvgAnalysis analyzeSvg returns from its catch block (lines 44-51) *)
DefaultAnalysis ==
    [hasSmil |-> FALSE, hasCssAnimation |-> FALSE, viewBox |-> Null,
     width |-> DefaultDim, height |-> DefaultDim, suggestedDuration |-> FallbackDuration2]

(* a parsed answer without any field; an absent number is 0 and an absent  *)
(* string "", which are as falsy as undefined                              *)
EmptyResult ==
    [hasSmil |-> FALSE, hasCssAnimation |-> FALSE, viewBox |-> "",
     width |-> 0, height |-> 0, suggestedDuration |-> 0]

(* What the hint service does with one request:                            *)
(*   "rejected"  generateContent rejects                                   *)
(*   "notJson"   response.text is not JSON: JSON.parse throws              *)
(*   "null"      response.text is the JSON null: reading a field throws    *)
(*   "object"    response.text, or '{}' in its place, parses to result     *)
HintResponses ==
    {[kind |-> k, result |-> EmptyResult] : k \in {"rejected", "notJson", "null", "object"}}
    \cup
    {[kind |-> "object",
      result |-> [hasSmil |-> TRUE, hasCssAnimation |-> FALSE, viewBox |-> "0 0 24 24",
                  width |-> 24, height |-> 0, suggestedDuration |-> d]] :
        d \in {-2, 1, 6, 24}}

(* a || b on numbers *)
OrNum(a, b) == IF a = 0 THEN b ELSE a

(* lines 35-42: the fields of result with their fallbacks *)
withFallbacks(result) ==
    [hasSmil |-> result.hasSmil \/ FALSE,
     hasCssAnimation |-> result.hasCssAnimation \/ FALSE,
     viewBox |-> Or(result.viewBox, Null),
     width |-> OrNum(result.width, DefaultDim),
     height |-> OrNum(result.height, DefaultDim),
     suggestedDuration |-> OrNum(result.suggestedDuration, FallbackDuration2)]

(* analyzeSvg without its try/catch *)
analyzeSvg_nocatch(resp) ==
    IF resp.kind = "object"
    THEN [threw |-> FALSE, value |-> withFallbacks(resp.result)]
    ELSE [threw |-> TRUE, value |-> DefaultAnalysis]

(* analyzeSvg (lines 7-53): [threw, value] of the promise it returns *)
analyzeSvg(resp) ==
    IF resp.kind = "object"
    THEN [threw |-> FALSE, value |-> withFallbacks(resp.result)]
    ELSE [threw |-> FALSE, value |-> DefaultAnalysis]

(* Math.min(a, b) *)
Min(a, b) == IF a < b THEN a ELSE b

(* runAnalysisContinues that stores the suggested duration as it comes *)
runAnalysisContinues_unchecked(a, resp) ==
    LET res == analyzeSvg(resp)
        a1 == [a EXCEPT !.hint = <<resp>>, !.analyzing = @ - 1, !.analysisThrew = res.threw]
        a2 == IF res.threw THEN a1
              ELSE [a1 EXCEPT !.analysis = <<res.value>>,
                              !.duration = res.value.suggestedDuration]
    IN  [a2 EXCEPT !.isAnalyzing = FALSE]

(* runAnalysis after its await (lines 128-138) *)
runAnalysisContinues(a, resp) ==
    LET res == analyzeSvg(resp)
        a1 == [a EXCEPT !.hint = <<resp>>, !.analyzing = @ - 1, !.analysisThrew = res.threw]
        a2 == IF res.threw THEN a1
              ELSE [a1 EXCEPT !.analysis = <<res.value>>,
                              !.duration = IF res.value.suggestedDuration > 0
                                           THEN Min(res.value.suggestedDuration, DurationCap2)
                                           ELSE DefaultDuration2]
    IN  [a2 EXCEPT !.isAnalyzing = FALSE]

(* ---------------- time ---------------- *)
(* A timed export counts time in units of 5 / fps milliseconds, so that    *)
(* the frame interval 1000 / fps ms is 200 units and the margin of 5 ms is *)
(* fps units, for every integer fps.                                       *)
FrameInterval == PacingBase \div PacingMargin

(* a pacing delay of the margin alone: setTimeout(r, 5) *)
pacingDelay_short(fps) == fps

(* (1000 / settings.fps) + 5 of line 219, in units of 5 / fps ms *)
pacingDelay(fps) == FrameInterval + fps

(* The clock is off in the untimed exports.  In a timed export now is the  *)
(* current time, sampleAt the next instant at which the recorder samples   *)
(* the canvas, deadline the latest time of the event the driver waits for  *)
(* (image decode) or its due time (pacing timer), drawnAt the time of the  *)
(* last draw, drawn the number of frames drawn and seen the indices of the *)
(* frames the recorder sampled.                                            *)
NoClock ==
    [on |-> FALSE, now |-> 0, sampleAt |-> 0, deadline |-> 0, drawnAt |-> 0,
     drawn |-> 0, seen |-> {}]

(* the phases of the recorder's sampling against recorder.start() *)
SamplePhases == 1..FrameInterval

(* the image decode is awaited from now on, for MaxLoadDelay at most *)
awaitImage(c) == IF c.on THEN [c EXCEPT !.deadline = c.now + MaxLoadDelay] ELSE c

(* the decode ends at time t and the frame is drawn *)
drawnAtTime(c, t) ==
    IF c.on THEN [c EXCEPT !.now = t, !.drawnAt = t, !.drawn = @ + 1] ELSE c

(* setTimeout(r, (1000 / fps) + 5) at the current time *)
setTimeout(c, fps) == IF c.on THEN [c EXCEPT !.deadline = c.now + pacingDelay(fps)] ELSE c

(* the pacing timer fires when it is due *)
timerFires(c) == IF c.on THEN [c EXCEPT !.now = c.deadline] ELSE c

(* the recorder samples the canvas at sampleAt and every frame interval after *)
sampled(c) ==
    IF c.on
    THEN [c EXCEPT !.now = c.sampleAt,
                   !.sampleAt = @ + FrameInterval,
                   !.seen = IF c.drawn > 0 THEN @ \cup {c.drawn - 1} ELSE @]
    ELSE c

(* ---------------- state ---------------- *)
VARIABLES
    window,         \* the runtime: [gifshot, supported, scriptLoads]
    canvas,         \* this.canvas: [width, height, layers]
    liveContainer,  \* this.liveContainer: [created, content]
    objectUrls,     \* object URLs created and not yet revoked
    recorder,       \* the MediaRecorder of the current generateVideo call
    orphans,        \* recorders of earlier calls that are still recording
    call,           \* the activation of convert / generateGif / generateVideo
    promise,        \* the promise convert returned: [state, blob, error]
    progress,       \* the values passed to onProgress by the current call
    captures,       \* the captureFrame calls and returns of the current call
    trail,          \* the phases the current call went through
    run,            \* number of convert calls made so far
    app,            \* the state of the App component: [isProcessing,
                    \* isAnalyzing, analysis, duration, ...]
    clock           \* the clock of a timed export: [on, now, sampleAt,
                    \* deadline, drawnAt, drawn, seen]

vars == <<window, canvas, liveContainer, objectUrls, recorder, orphans, call,
          promise, progress, captures, trail, run, app, clock>>

(* The state as one record, so that the continuations of the converter     *)
(* compose as functions on it.                                             *)
World ==
    [window |-> window, canvas |-> canvas, liveContainer |-> liveContainer,
     objectUrls |-> objectUrls, recorder |-> recorder, orphans |-> orphans,
     call |-> call, promise |-> promise, progress |-> progress,
     captures |-> captures, trail |-> trail, run |-> run, app |-> app,
     clock |-> clock]

Becomes(w) ==
    /\ window' = w.window
    /\ canvas' = w.canvas
    /\ liveContainer' = w.liveContainer
    /\ objectUrls' = w.objectUrls
    /\ recorder' = w.recorder
    /\ orphans' = w.orphans
    /\ call' = w.call
    /\ promise' = w.promise
    /\ progress' = w.progress
    /\ captures' = w.captures
    /\ trail' = w.trail
    /\ run' = w.run
    /\ app' = w.app
    /\ clock' = w.clock

NoMarkup == Mk("none", Null, Null, NoViewBox, "absent")

NoSettings ==
    [fps |-> 1, dur2 |-> 1, scale2 |-> 2, quality10 |-> 10, format |-> "GIF",
     transparent |-> FALSE]

NoRecorder ==
    [state |-> "none", mimeType |-> "", videoBitsPerSecond |-> 0, samples |-> 0,
     chunks |-> 0]

NoBlob == [type |-> "", parts |-> 0]

PendingPromise == [state |-> "pending", blob |-> NoBlob, error |-> <<>>]

(* the locals of a fresh activation *)
NewCall(svgString, settings) ==
    [pc |-> "running", svgString |-> svgString, settings |-> settings, i |-> 0,
     time |-> Rat(0, 1), totalFrames |-> 0, frames |-> <<>>, selectedMime |-> "", gifProgressCalls |-> 0,
     gifArgs |-> <<>>, gifObj |-> <<>>, gifshotFound |-> FALSE, scriptsInjected |-> 0,
     timersFired |-> 0]

(* the answers of MediaRecorder.isTypeSupported: a runtime that supports a *)
(* container with a codec supports the container                           *)
SupportSets ==
    { S \in SUBSET MimeSet :
        /\ "video/mp4;codecs=h264" \in S => "video/mp4" \in S
        /\ "video/webm;codecs=vp9" \in S => "video/webm" \in S }

(* The runtimes the converter is constructed in.  generateVideo never      *)
(* reads window.gifshot and generateGif never asks isTypeSupported, so the *)
(* runtimes without the GIF capability take the two extreme answers of     *)
(* isTypeSupported only.                                                   *)
Runtimes ==
    { r \in [gifshot : BOOLEAN, supported : SupportSets, scriptLoads : {0}] :
        r.gifshot \/ r.supported \in {{}, MimeSet} }

IdleCall == [NewCall(NoMarkup, NoSettings) EXCEPT !.pc = "idle"]

NoPromise == [PendingPromise EXCEPT !.state = "none"]

(* the useState initial values of App; analyzing counts the analyzeSvg     *)
(* calls in flight, hint is the answer the last settled one got and        *)
(* analysisThrew whether its await raised into runAnalysis                 *)
(* svgCode is the text in the editor, resultUrl the object URL of the last  *)
(* blob together with the text that blob was rendered from, error the      *)
(* message shown, fileReads the contents of the files a FileReader is      *)
(* still reading, localAnalysis what updateLocalAnalysis stored            *)
useState ==
    [isProcessing |-> FALSE, isAnalyzing |-> FALSE, analysis |-> <<>>,
     fps |-> DefaultFps, duration |-> DefaultDuration2, analyzing |-> 0,
     hint |-> <<>>, analysisThrew |-> FALSE,
     activeTab |-> "preview", svgCode |-> DefaultSvg, resultUrl |-> <<>>,
     error |-> <<>>, fileReads |-> {}, localAnalysis |-> <<>>]

(* One of the two reads of updateLocalAnalysis (App.tsx lines 79, 80):     *)
(*   parseFloat(getAttribute(a) || viewBox?.baseVal?.<a>?.toString() || '400') *)
(* an svg element outside the SVG namespace has no viewBox property and    *)
(* the optional chain yields undefined                                     *)
localDimension(m, attr, k) ==
    parseFloat(Or(attr,
                  Or(IF m.root = "svgNoNs" THEN Null ELSE NumToString(baseVal(m)[k]),
                     NumToString(LocalDefaultDim))))

(* updateLocalAnalysis(code) on the state a of App (App.tsx lines 69-88):  *)
(* nothing is stored when the text has no svg element.  hasSmil and        *)
(* hasCssAnimation are matches on the animation elements of the text,      *)
(* which the markups of the model do not carry.                            *)
updateLocalAnalysis(a, code) ==
    IF code.root = "none" THEN a
    ELSE [a EXCEPT !.localAnalysis =
            <<[viewBox |-> code.viewBox,
               width |-> localDimension(code, code.width, 1),
               height |-> localDimension(code, code.height, 2),
               suggestedDuration2 |-> LocalSuggestedDuration2]>>]

(* the state of App once mounted: the effect of lines 90-93 has analysed   *)
(* the initial text                                                        *)
InitialApp == updateLocalAnalysis(useState, useState.svgCode)

(* handleSvgChange with the new text of the editor (App.tsx lines 95-100)  *)
handleSvgChange(w, code) ==
    [w EXCEPT !.app = updateLocalAnalysis(
                        [@ EXCEPT !.svgCode = code, !.resultUrl = <<>>], code)]

(* reader.onload of handleFileUpload with the content of the file          *)
(* (App.tsx lines 106-112)                                                 *)
readerOnLoad(w, content) ==
    [w EXCEPT !.app = [updateLocalAnalysis(
                         [@ EXCEPT !.svgCode = content, !.resultUrl = <<>>], content)
                       EXCEPT !.activeTab = "preview",
                              !.fileReads = @ \ {content}]]

InitWith(a) ==
    /\ window \in Runtimes
    /\ canvas = [width |-> 300, height |-> 150, layers |-> <<>>]
    /\ liveContainer = [created |-> FALSE, content |-> <<>>]
    /\ objectUrls = 0
    /\ recorder = NoRecorder
    /\ orphans = 0
    /\ call = IdleCall
    /\ promise = NoPromise
    /\ progress = <<>>
    /\ captures = <<>>
    /\ trail = <<"Idle">>
    /\ run = 0
    /\ app = a
    /\ clock = NoClock

(* the state after construction *)
Init == InitWith(InitialApp)

(* the state once a text has been entered in the editor: handleSvgChange   *)
(* on the state of the mounted App                                         *)
InitEntered ==
    \E code \in Markups :
        InitWith(updateLocalAnalysis([InitialApp EXCEPT !.svgCode = code], code))

(* ---------------- settling the promise ---------------- *)
(* a throw inside the async functions, or reject(...) *)
Reject(w, msg) ==
    [w EXCEPT !.promise = [state |-> "rejected", blob |-> NoBlob, error |-> msg],
              !.call.pc = "settled",
              !.trail = Append(@, "Failed")]

(* return of the blob, or resolve(...) *)
Resolve(w, blob) ==
    [w EXCEPT !.promise = [state |-> "resolved", blob |-> blob, error |-> <<>>],
              !.call.pc = "settled",
              !.trail = Append(@, "Complete")]

(* onProgress(v) *)
onProgress(w, v) == [w EXCEPT !.progress = Append(@, v)]

(* ---------------- captureFrame ---------------- *)
(* The style element of lines 123-131: animation-delay: -${time}s *)
cssOverride(time) == <<"-", time, "s">>

(* The live svg after the two seeks (lines 115-131): setCurrentTime is     *)
(* applied when it exists and does not raise, the style is always appended *)
seek(m, time) ==
    [src |-> m,
     smil |-> IF m.smil = "ok" THEN <<time>> ELSE <<>>,
     css |-> <<cssOverride(time)>>]

(* captureFrameBegin without the check of line 113 *)
captureFrameBegin_nocheck(w, time) ==
    LET m == w.call.svgString
    IN  [w EXCEPT !.liveContainer = [created |-> TRUE, content |-> <<seek(m, time)>>],
                  !.captures = Append(@, [ev |-> "call", index |-> w.call.i, time |-> time]),
                  !.trail = Append(@, "Capturing"),
                  !.objectUrls = @ + 1,
                  !.call.time = time,
                  !.call.pc = "loadingImage"]

(* captureFrameBegin without the try/catch around setCurrentTime *)
captureFrameBegin_smilThrows(w, time) ==
    LET m == w.call.svgString
        w1 == [w EXCEPT !.liveContainer = [created |-> TRUE,
                                            content |-> <<[src |-> m, smil |-> <<>>, css |-> <<>>]>>],
                        !.captures = Append(@, [ev |-> "call", index |-> w.call.i, time |-> time]),
                        !.trail = Append(@, "Capturing")]
    IN  IF m.root = "none"
        THEN Reject(w1, <<ErrInvalidSvg>>)
        ELSE IF m.smil = "raises"
        THEN Reject(w1, <<"setCurrentTime raised">>)
        ELSE [w1 EXCEPT !.liveContainer.content = <<seek(m, time)>>,
                        !.objectUrls = @ + 1,
                        !.call.time = time,
                        !.call.pc = "loadingImage",
                        !.clock = awaitImage(@)]

(* captureFrameBegin that seeks a live svg kept from the call before, so   *)
(* that the seeks add up on its clock                                      *)
captureFrameBegin_sharedClock(w, time) ==
    LET m == w.call.svgString
        t == Rat(w.call.time.n * (time.d \div w.call.time.d) + time.n, time.d)
        w1 == [w EXCEPT !.liveContainer = [created |-> TRUE,
                                            content |-> <<[src |-> m, smil |-> <<>>, css |-> <<>>]>>],
                        !.captures = Append(@, [ev |-> "call", index |-> w.call.i, time |-> time]),
                        !.trail = Append(@, "Capturing")]
    IN  IF m.root = "none"
        THEN Reject(w1, <<ErrInvalidSvg>>)
        ELSE [w1 EXCEPT !.liveContainer.content = <<seek(m, t)>>,
                        !.objectUrls = @ + 1,
                        !.call.time = t,
                        !.call.pc = "loadingImage",
                        !.clock = awaitImage(@)]

(* captureFrame up to the await of loadImage (lines 110-139) *)
captureFrameBegin(w, time) ==
    LET m == w.call.svgString
        w1 == [w EXCEPT !.liveContainer = [created |-> TRUE,
                                            content |-> <<[src |-> m, smil |-> <<>>, css |-> <<>>]>>],
                        !.captures = Append(@, [ev |-> "call", index |-> w.call.i, time |-> time]),
                        !.trail = Append(@, "Capturing")]
    IN  IF m.root = "none"
        THEN Reject(w1, <<ErrInvalidSvg>>)
        ELSE [w1 EXCEPT !.liveContainer.content = <<seek(m, time)>>,
                        !.objectUrls = @ + 1,
                        !.call.time = time,
                        !.call.pc = "loadingImage",
                        !.clock = awaitImage(@)]

(* the finally block (lines 149-152) *)
captureFrameFinally(w) ==
    [w EXCEPT !.objectUrls = @ - 1, !.liveContainer.content = <<>>]

(* drawFrame without the clearRect *)
drawFrame_noclear(cv, img, transparent) ==
    LET filled == IF transparent THEN cv.layers
                  ELSE Append(cv.layers, [kind |-> "fill", src |-> <<>>])
    IN  [cv EXCEPT !.layers = Append(filled, [kind |-> "image", src |-> <<img>>])]

(* clearRect, fillRect unless transparent, drawImage (lines 140-147) *)
drawFrame(cv, img, transparent) ==
    LET cleared == <<>>
        filled == IF transparent THEN cleared
                  ELSE Append(cleared, [kind |-> "fill", src |-> <<>>])
    IN  [cv EXCEPT !.layers = Append(filled, [kind |-> "image", src |-> <<img>>])]

(* canvas.toDataURL('image/png') *)
toDataURL(cv) == [width |-> cv.width, height |-> cv.height, layers |-> cv.layers]

(* captureFrame from the image's load event to its return (lines 139-152) *)
captureFrameEnd(w) ==
    LET img == w.liveContainer.content[1]
        w1 == [w EXCEPT !.canvas = drawFrame(@, img, w.call.settings.transparent),
                        !.captures = Append(@, [ev |-> "return", index |-> w.call.i,
                                                time |-> w.call.time])]
    IN  captureFrameFinally(w1)

(* ---------------- generateGif ---------------- *)
(* gs.createGIF({...}, callback) (lines 172-180) *)
createGIF(w) ==
    [w EXCEPT !.call.pc = "assembling",
              !.call.gifArgs = Append(@, [images |-> w.call.frames,
                                          gifWidth |-> w.canvas.width,
                                          gifHeight |-> w.canvas.height,
                                          interval |-> frameDurationOf(w.call.settings),
                                          numFrames |-> w.call.totalFrames]),
              !.trail = Append(@, "Encoding")]

(* gifLoop that hands over to the GIF capability after the first frame *)
gifLoop_eager(w) ==
    IF w.call.i < w.call.totalFrames /\ w.call.i < 1
    THEN captureFrameBegin(w, frameTime(w.call.i, w.call.settings))
    ELSE createGIF(w)

(* the test of the for loop and what follows it (lines 166-172) *)
gifLoop(w) ==
    IF w.call.i < w.call.totalFrames
    THEN captureFrameBegin(w, frameTime(w.call.i, w.call.settings))
    ELSE createGIF(w)

(* generateGif once gs is there (lines 162-166) *)
gifBody(w) ==
    gifLoop([w EXCEPT !.call.totalFrames = totalFramesOf(w.call.settings),
                      !.call.i = 0,
                      !.call.frames = <<>>])

(* generateGif that appends the script without looking at window.gifshot *)
generateGif_inject(w) ==
    [w EXCEPT !.call.gifshotFound = w.window.gifshot,
              !.window.scriptLoads = @ + 1,
              !.call.scriptsInjected = @ + 1,
              !.call.pc = "loadingScript"]

(* generateGif up to its first pending await; waitForGifshot (lines 57-72) *)
(* returns at once when window.gifshot is set and injects the script       *)
(* otherwise.  gifshotFound is the result of check() on line 59,           *)
(* scriptsInjected counts the script elements this call appended.          *)
generateGif(w) ==
    IF w.window.gifshot
    THEN gifBody([w EXCEPT !.call.gifshotFound = TRUE])
    ELSE [w EXCEPT !.window.scriptLoads = @ + 1,
                   !.call.scriptsInjected = @ + 1,
                   !.call.pc = "loadingScript"]

(* ---------------- generateVideo ---------------- *)
(* recorder.stop(); return promise (lines 223-224) *)
recorderStop(w) ==
    [w EXCEPT !.recorder.state = "inactive",
              !.call.pc = "stopping",
              !.trail = Append(@, "Encoding")]

(* videoLoop with the test i <= totalFrames *)
videoLoop_inclusive(w) ==
    IF w.call.i <= w.call.totalFrames
    THEN captureFrameBegin(w, frameTime(w.call.i, w.call.settings))
    ELSE recorderStop(w)

(* the test of the for loop and what follows it (lines 216-224) *)
videoLoop(w) ==
    IF w.call.i < w.call.totalFrames
    THEN captureFrameBegin(w, frameTime(w.call.i, w.call.settings))
    ELSE recorderStop(w)

(* generateVideo up to its first pending await (lines 195-217); the        *)
(* MediaRecorder constructor throws for a type the runtime does not support *)
generateVideo(w) ==
    LET selectedMime == selectMime(w.window.supported)
        st == w.call.settings
    IN  IF selectedMime \notin w.window.supported
        THEN Reject([w EXCEPT !.call.selectedMime = selectedMime], <<ErrNotSupported>>)
        ELSE videoLoop(
               [w EXCEPT !.call.selectedMime = selectedMime,
                         !.recorder = [state |-> "recording",
                                       mimeType |-> selectedMime,
                                       videoBitsPerSecond |->
                                           (BitrateCeiling \div 10) * st.quality10,
                                       samples |-> 0,
                                       chunks |-> 0],
                         !.call.totalFrames = totalFramesOf(st),
                         !.call.i = 0])

(* ---------------- convert ---------------- *)
(* convert (lines 74-88) up to its first pending await *)
convert(w, svgString, settings) ==
    LET dims == getDimensions(svgString, settings.scale2)
        w0 == [w EXCEPT !.call = NewCall(svgString, settings),
                        !.promise = PendingPromise,
                        !.progress = <<>>,
                        !.captures = <<>>,
                        !.trail = <<"Idle", "ResolvingDimensions">>,
                        !.run = @ + 1]
    IN  IF dims.threw
        THEN Reject(w0, <<ErrType>>)
        ELSE LET w1 == [w0 EXCEPT !.canvas = [width |-> ToCanvasSize(dims.width),
                                               height |-> ToCanvasSize(dims.height),
                                               layers |-> <<>>]]
             IN  IF settings.format = "GIF" THEN generateGif(w1) ELSE generateVideo(w1)

(* ---------------- actions ---------------- *)
(* the values the GIF capability passes to progressCallback, in quarters *)
GifProgressValues4 == {0, 4}

(* err.message || "Failed to render animation." (App.tsx line 130) *)
errorMessage(err) == IF Truthy(err[1]) THEN err ELSE <<ErrRenderFailed>>

(* startConversion that leaves the message of the failure out *)
startConversionSettles_silent(a, c, p) ==
    IF p.state = "resolved"
    THEN [a EXCEPT !.resultUrl = <<[from |-> c.svgString]>>,
                   !.activeTab = "preview",
                   !.isProcessing = FALSE]
    ELSE [a EXCEPT !.isProcessing = FALSE]

(* startConversion after its await, on the state a of App (App.tsx lines   *)
(* 126-133): the object URL of the blob is stored on success, the message  *)
(* on failure, and isProcessing is cleared in the finally block.  The blob *)
(* was rendered from the text convert was called with.                     *)
startConversionSettles(a, c, p) ==
    IF p.state = "resolved"
    THEN [a EXCEPT !.resultUrl = <<[from |-> c.svgString]>>,
                   !.activeTab = "preview",
                   !.isProcessing = FALSE]
    ELSE [a EXCEPT !.error = errorMessage(p.error),
                   !.isProcessing = FALSE]

(* The caller's await of convert returns or throws (App.tsx,               *)
(* startConversion lines 125-133): the activation is over, its promise and *)
(* callback are dropped, and the Export button is enabled again.  A        *)
(* recorder that is still recording stays behind.                          *)
startConversionContinues(w) ==
    [w EXCEPT !.call = IdleCall,
              !.promise = NoPromise,
              !.progress = <<>>,
              !.captures = <<>>,
              !.trail = <<"Idle">>,
              !.orphans = IF w.recorder.state = "recording" THEN @ + 1 ELSE @,
              !.recorder = NoRecorder,
              !.app = startConversionSettles(@, w.call, w.promise)]

AwaitReturns ==
    /\ call.pc = "settled"
    /\ Becomes(startConversionContinues(World))

(* an Export button that is never disabled *)
exportDisabled_never(a) == FALSE

(* disabled={isProcessing} on the Export button (App.tsx line 166) *)
exportDisabled(a) == a.isProcessing

(* startConversion up to its await (App.tsx lines 117-125): it sets        *)
(* isProcessing, clears the message and the result, and calls convert with *)
(* the text of the editor                                                  *)
startConversion(w, settings) ==
    convert([w EXCEPT !.app.isProcessing = TRUE,
                      !.app.error = <<>>,
                      !.app.resultUrl = <<>>],
            w.app.svgCode, settings)

(* a click on the Export button *)
Convert ==
    /\ ~exportDisabled(app)
    /\ run < MaxRuns
    /\ \E settings \in Settings :
          Becomes(startConversion(World, settings))

(* startConversion with any position of the scale slider and the sized     *)
(* markups as well                                                         *)
ConvertSized ==
    /\ ~exportDisabled(app)
    /\ run < MaxRuns
    /\ \E svgString \in Markups \cup SizedMarkups, settings \in DimensionSettings :
          Becomes(startConversion(handleSvgChange(World, svgString), settings))

(* the markup and the settings of the exports that follow a hint: the      *)
(* duration is the one App holds                                           *)
HintMarkup == DefaultSvg

HintSettings(a) ==
    [fps : 1..MaxFps, dur2 : {a.duration}, scale2 : Scales2, quality10 : {10},
     format : {"WEBM"}, transparent : {FALSE}]

(* a click on the Export button with the duration App holds *)
ConvertHinted ==
    /\ ~exportDisabled(app)
    /\ run < MaxRuns
    /\ \E settings \in HintSettings(app) :
          Becomes(startConversion(World, settings))

ClockSettings ==
    [fps : 1..MaxFps, dur2 : 1..MaxDur2, scale2 : Scales2, quality10 : {10},
     format : {"MP4", "WEBM"}, transparent : {FALSE}]

(* a click on the Export button for a video, with the clock started at     *)
(* recorder.start() and the recorder's sampling in some phase to it        *)
ConvertTimed ==
    /\ ~exportDisabled(app)
    /\ run < MaxRuns
    /\ \E settings \in ClockSettings, phase \in SamplePhases :
          Becomes(startConversion(
            [World EXCEPT !.clock = [NoClock EXCEPT !.on = TRUE, !.sampleAt = phase]],
            settings))

(* positions of the fps slider (App.tsx lines 311-315: min 12, max 60,     *)
(* step 4) and of the duration slider (lines 324-328: min 0.5, max 15,     *)
(* step 0.5), in half seconds: both ends and one inner position            *)
FpsSlider == {12, 16, 60}

DurationSlider2 == {1, 2, 30}

(* onChange of the fps slider: parseInt of the position *)
SetFps ==
    \E v \in FpsSlider : Becomes([World EXCEPT !.app.fps = v])

(* onChange of the duration slider: parseFloat of the position *)
SetDuration ==
    \E v \in DurationSlider2 : Becomes([World EXCEPT !.app.duration = v])

(* the settings App holds *)
CurrentSettings(a) ==
    [fps |-> a.fps, dur2 |-> a.duration, scale2 |-> 3, quality10 |-> 10,
     format |-> "MP4", transparent |-> FALSE]

(* a click on the Export button with the settings App holds *)
ConvertCurrent ==
    /\ ~exportDisabled(app)
    /\ run < MaxRuns
    /\ Becomes(startConversion(World, CurrentSettings(app)))

(* a click on Smart Detect: runAnalysis up to its await (lines 124-128);   *)
(* the markup of the model is never blank                                  *)
RunAnalysis ==
    /\ app.analyzing < MaxAnalyses
    /\ Becomes([World EXCEPT !.app.isAnalyzing = TRUE, !.app.analyzing = @ + 1])

(* the promise of analyzeSvg settles and runAnalysis goes on *)
AnalysisSettles ==
    /\ app.analyzing > 0
    /\ \E resp \in HintResponses :
          Becomes([World EXCEPT !.app = runAnalysisContinues(@, resp)])

(* script.onload (lines 65-68): the script may or may not have defined     *)
(* window.gifshot                                                          *)
ScriptOnLoad ==
    /\ call.pc = "loadingScript"
    /\ \E defined \in BOOLEAN :
          LET w == [World EXCEPT !.window.gifshot = defined]
          IN  Becomes(IF defined THEN gifBody(w) ELSE Reject(w, <<ErrGifInit>>))

(* script.onerror (line 69) *)
ScriptOnError ==
    /\ call.pc = "loadingScript"
    /\ Becomes(Reject(World, <<ErrCdn>>))

(* ImageOnLoad of a generateVideo without the pacing delay *)
ImageOnLoad_nopace ==
    /\ call.pc = "loadingImage"
    /\ LET w == captureFrameEnd(World)
       IN  IF call.settings.format = "GIF"
           THEN Becomes(gifLoop(
                  [onProgress(w, gifCaptureProgress(call.i, call.totalFrames))
                     EXCEPT !.call.frames = Append(@, toDataURL(w.canvas)),
                            !.call.i = @ + 1]))
           ELSE Becomes(videoLoop(
                  [onProgress(w, videoProgress(call.i, call.totalFrames))
                     EXCEPT !.call.i = @ + 1]))

(* the times at which the image decode may end: at once or at its         *)
(* deadline, and not after the recorder's next sample                      *)
loadTimes(c) ==
    IF c.on THEN {t \in {c.now, c.deadline} : t <= c.sampleAt} ELSE {c.now}

(* img.onload (line 230), the rest of captureFrame and the loop body up to *)
(* its next await                                                          *)
ImageOnLoad ==
    /\ call.pc = "loadingImage"
    /\ \E t \in loadTimes(clock) :
          LET w == captureFrameEnd([World EXCEPT !.clock = drawnAtTime(@, t)])
          IN  IF call.settings.format = "GIF"
              THEN Becomes(gifLoop(
                     [onProgress(w, gifCaptureProgress(call.i, call.totalFrames))
                        EXCEPT !.call.frames = Append(@, toDataURL(w.canvas)),
                               !.call.i = @ + 1]))
              ELSE Becomes([w EXCEPT !.call.pc = "pacing",
                                     !.clock = setTimeout(@, call.settings.fps)])

(* ImageOnError that swallows the failure and goes on with the next frame *)
ImageOnError_continue ==
    /\ call.pc = "loadingImage"
    /\ LET w == [captureFrameFinally(World) EXCEPT !.call.i = @ + 1]
       IN  Becomes(IF call.settings.format = "GIF" THEN gifLoop(w) ELSE videoLoop(w))

(* img.onerror (line 231): captureFrame throws after its finally block *)
ImageOnError ==
    /\ call.pc = "loadingImage"
    /\ Becomes(Reject(captureFrameFinally(World), <<ErrImage>>))

(* the pacing timer of generateVideo fires (lines 219-221) *)
TimerFired ==
    /\ call.pc = "pacing"
    /\ clock.on => clock.deadline <= clock.sampleAt
    /\ Becomes(videoLoop(
         [onProgress(World, videoProgress(call.i, call.totalFrames))
            EXCEPT !.call.i = @ + 1, !.call.timersFired = @ + 1,
                   !.clock = timerFires(@)]))

(* The recorder takes one more frame of the canvas stream: at any moment  *)
(* in an untimed export, at sampleAt in a timed one, where the observation *)
(* lasts as long as the driver runs                                        *)
RecorderSample ==
    /\ recorder.state = "recording"
    /\ IF clock.on
       THEN call.pc \in {"loadingImage", "pacing"} /\ clock.sampleAt <= clock.deadline
       ELSE recorder.samples < MaxSamples
    /\ Becomes([World EXCEPT !.recorder.samples = @ + 1, !.clock = sampled(@)])

(* dataavailable and stop events after recorder.stop() (lines 205-208) *)
RecorderOnStop ==
    /\ call.pc = "stopping"
    /\ \E size \in {0, 1} :
          LET chunks == recorder.chunks + (IF size > 0 THEN 1 ELSE 0)
          IN  Becomes(Resolve([World EXCEPT !.recorder.chunks = chunks],
                              [type |-> call.selectedMime, parts |-> chunks]))

(* the GIF capability calls progressCallback(p) (line 179) *)
GifProgress ==
    /\ call.pc = "assembling"
    /\ call.gifProgressCalls < MaxGifProgress
    /\ \E p4 \in GifProgressValues4 :
          Becomes([onProgress(World, gifEncodeProgress(p4))
                     EXCEPT !.call.gifProgressCalls = @ + 1])

(* the objects the GIF capability passes to the completion callback *)
GifErrorMsgs == {"errorMsg", "otherErrorMsg"}

GifObjs ==
    {[error |-> FALSE, errorMsg |-> ""]} \cup
    {[error |-> TRUE, errorMsg |-> msg] : msg \in GifErrorMsgs}

(* GifCallback that does not look at obj.error *)
GifCallback_ignoreError ==
    /\ call.pc = "assembling"
    /\ \E obj \in GifObjs :
          Becomes([World EXCEPT !.call.gifObj = <<obj>>, !.call.pc = "fetching"])

(* the GIF capability calls the completion callback (lines 180-186) *)
GifCallback ==
    /\ call.pc = "assembling"
    /\ \E obj \in GifObjs :
          LET w == [World EXCEPT !.call.gifObj = <<obj>>]
          IN  IF obj.error
              THEN Becomes(Reject(w, <<ErrGifPrefix, obj.errorMsg>>))
              ELSE Becomes([w EXCEPT !.call.pc = "fetching"])

(* fetch(obj.image) settles (line 182); a rejection has no handler *)
FetchSettled ==
    /\ call.pc = "fetching"
    /\ \E ok \in BOOLEAN :
          Becomes([World EXCEPT !.call.pc = IF ok THEN "readingBlob" ELSE "abandoned"])

(* res.blob() settles (line 182); a rejection has no handler *)
BlobSettled ==
    /\ call.pc = "readingBlob"
    /\ \E ok \in BOOLEAN :
          IF ok
          THEN Becomes(Resolve(World, [type |-> "image/gif", parts |-> 1]))
          ELSE Becomes([World EXCEPT !.call.pc = "abandoned"])

Next ==
    \/ Convert
    \/ AwaitReturns
    \/ ScriptOnLoad
    \/ ScriptOnError
    \/ ImageOnLoad
    \/ ImageOnError
    \/ TimerFired
    \/ RecorderSample
    \/ RecorderOnStop
    \/ GifProgress
    \/ GifCallback
    \/ FetchSettled
    \/ BlobSettled

Spec == InitEntered /\ [][Next]_vars

(* The exports' first step alone, over all scales: convert up to its      *)
(* first pending await, and the caller's continuation when it fails at once *)
NextDimensions == ConvertSized \/ AwaitReturns

SpecDimensions == Init /\ [][NextDimensions]_vars

(* The App with the hint service, exporting video with the duration it    *)
(* holds on a runtime that supports every recorder type                    *)
InitHint == Init /\ window.gifshot /\ window.supported = MimeSet

NextHint ==
    \/ RunAnalysis
    \/ AnalysisSettles
    \/ ConvertHinted
    \/ AwaitReturns
    \/ ImageOnLoad
    \/ ImageOnError
    \/ TimerFired
    \/ RecorderSample
    \/ RecorderOnStop

SpecHint == InitHint /\ [][NextHint]_vars

(* The controls of App that write fps and duration, and exports started   *)
(* with what they wrote; an export is followed up to its first frame       *)
NextSettings ==
    \/ SetFps
    \/ SetDuration
    \/ RunAnalysis
    \/ AnalysisSettles
    \/ ConvertCurrent
    \/ ImageOnError
    \/ AwaitReturns

SpecSettings == InitHint /\ [][NextSettings]_vars

(* ---------------- the editor ---------------- *)
(* the texts typed or imported: the initial one, one without dimensions    *)
(* and one without an svg element                                          *)
EditorTexts ==
    { DefaultSvg,
      Mk("svg", Null, Null, NoViewBox, "ok"),
      Mk("none", Null, Null, NoViewBox, "ok") }

Tabs == {"code", "preview", "settings"}

EditorSettings ==
    [fps |-> 1, dur2 |-> 2, scale2 |-> 3, quality10 |-> 10, format |-> "WEBM",
     transparent |-> FALSE]

(* onChange of the textarea (App.tsx lines 210-212): it is not disabled    *)
(* while an export is in flight                                            *)
TextEdited ==
    \E code \in EditorTexts \ {app.svgCode} :
        Becomes(handleSvgChange(World, code))

(* handleFileUpload (App.tsx lines 102-115): a FileReader starts reading   *)
(* the chosen file                                                         *)
FileChosen ==
    \E content \in EditorTexts \ app.fileReads :
        Becomes([World EXCEPT !.app.fileReads = @ \cup {content}])

(* the FileReader has read a file *)
ReaderOnLoad ==
    \E content \in app.fileReads :
        Becomes(readerOnLoad(World, content))

(* a click on one of the tab buttons (App.tsx lines 180-195) *)
SelectTab ==
    \E t \in Tabs \ {app.activeTab} :
        Becomes([World EXCEPT !.app.activeTab = t])

(* a click on the Export button with the text the editor holds *)
ConvertEdited ==
    /\ ~exportDisabled(app)
    /\ run < MaxRuns
    /\ Becomes(startConversion(World, EditorSettings))

(* edits, imports and exports in any order *)
NextEditor ==
    \/ TextEdited
    \/ FileChosen
    \/ ReaderOnLoad
    \/ SelectTab
    \/ ConvertEdited
    \/ AwaitReturns
    \/ ImageOnLoad
    \/ ImageOnError
    \/ TimerFired
    \/ RecorderSample
    \/ RecorderOnStop

SpecEditor == InitHint /\ [][NextEditor]_vars

(* one video export under the clock *)
NextTimed ==
    \/ ConvertTimed
    \/ ImageOnLoad
    \/ ImageOnError
    \/ TimerFired
    \/ RecorderSample
    \/ RecorderOnStop

SpecTimed == InitHint /\ [][NextTimed]_vars

(* the events a pending call can be waiting for *)
ExportStep ==
    \/ ScriptOnLoad
    \/ ScriptOnError
    \/ ImageOnLoad
    \/ ImageOnError
    \/ TimerFired
    \/ RecorderOnStop
    \/ GifProgress
    \/ GifCallback
    \/ FetchSettled
    \/ BlobSettled

(* ======================= properties ======================= *)
Last(q) == q[Len(q)]

Returned == {k \in DOMAIN captures : captures[k].ev = "return"}

Succeeded == promise.state = "resolved"

Failed == promise.state = "rejected"

(* ceil(fps * duration), from its definition: the least n with n >= fps * dur2 / 2 *)
ExpectedFrames(st) ==
    CHOOSE n \in 0..(st.fps * st.dur2) :
        /\ 2 * n >= st.fps * st.dur2
        /\ 2 * (n - 1) < st.fps * st.dur2

(* the capture loop of the current call has run to its end *)
CaptureDone ==
    \/ call.pc \in {"assembling", "fetching", "readingBlob", "abandoned", "stopping"}
    \/ Succeeded

(* the MIME type that corresponds to a requested format *)
FormatMime(f) ==
    CASE f = "GIF" -> "image/gif"
      [] f = "MP4" -> "video/mp4"
      [] f = "WEBM" -> "video/webm"

(* the MIME type without its parameters *)
Essence(t) ==
    CASE t = "video/mp4;codecs=h264" -> "video/mp4"
      [] t = "video/webm;codecs=vp9" -> "video/webm"
      [] OTHER -> t

(* C1: on every successful export the values passed to onProgress are      *)
(* non-decreasing and the last one is exactly 100.                         *)
C1_ProgressEndsAt100 ==
    Succeeded =>
        /\ \A j, k \in DOMAIN progress : j <= k => progress[j] <= progress[k]
        /\ progress # <<>>
        /\ Last(progress) = 100

(* C2: both paths capture exactly ceil(fps * duration) frames, and frame i *)
(* is captured at animation time i / fps.                                  *)
C2_FrameCountAndTimes ==
    /\ \A k \in DOMAIN captures :
          captures[k].time.n * call.settings.fps = captures[k].index * captures[k].time.d
    /\ CaptureDone =>
          /\ Cardinality(Returned) = ExpectedFrames(call.settings)
          /\ {captures[k].index : k \in Returned} = 0..(ExpectedFrames(call.settings) - 1)

C2_Witness ==
    /\ Succeeded
    /\ call.settings.format = "WEBM"
    /\ call.settings.fps = 1
    /\ call.settings.dur2 = 3
    /\ Len(captures) = 4
    /\ Last(captures).time = Rat(1, 1)

(* C3: frames are captured one after the other in increasing index order:  *)
(* the k-th capture begins only after the (k-1)-th has returned, and no    *)
(* index of [0, totalFrames) is skipped, repeated or exceeded.             *)
C3_SequentialCapture ==
    /\ \A k \in DOMAIN captures :
          /\ captures[k].index = (k - 1) \div 2
          /\ captures[k].ev = IF k % 2 = 1 THEN "call" ELSE "return"
          /\ captures[k].index < ExpectedFrames(call.settings)
    /\ Succeeded => Len(captures) = 2 * ExpectedFrames(call.settings)

C3_Witness ==
    /\ Succeeded
    /\ call.settings.format = "MP4"
    /\ Len(captures) = 6
    /\ captures[5] = [ev |-> "call", index |-> 2, time |-> Rat(2, 2)]

(* C4: the blob convert returns carries the MIME type of the requested     *)
(* format.                                                                 *)
C4_BlobHasRequestedMime ==
    Succeeded => Essence(promise.blob.type) = FormatMime(call.settings.format)

(* a frame's capture was begun and did not return *)
FrameFailed ==
    \E k \in DOMAIN captures :
        /\ captures[k].ev = "call"
        /\ IF k = Len(captures) THEN call.pc # "loadingImage"
           ELSE captures[k + 1].ev # "return"

(* C5: when the capture of frame i fails the export is rejected at once:   *)
(* frame i is the last one begun, progress was reported for the i frames   *)
(* before it only, the caller gets the capture's error and no blob.        *)
C5_FrameFailureAborts ==
    FrameFailed =>
        /\ call.pc = "settled"
        /\ Failed
        /\ promise.error \in {<<ErrInvalidSvg>>, <<ErrImage>>}
        /\ promise.blob = NoBlob
        /\ Last(captures) = [ev |-> "call", index |-> call.i, time |-> Last(captures).time]
        /\ \A k \in DOMAIN captures : captures[k].index <= call.i
        /\ Len(progress) = call.i

C5_Witness ==
    /\ FrameFailed
    /\ call.settings.format = "WEBM"
    /\ call.i = 1
    /\ promise.error = <<ErrImage>>
    /\ progress = <<0>>

(* C6 as claimed: for markup without an svg root convert ends with the     *)
(* invalid-markup error and no captured frame, for every format and        *)
(* whether or not the GIF capability is there.                             *)
C6_AlwaysInvalidMarkup ==
    (call.svgString.root = "none" /\ call.pc = "settled") =>
        /\ Failed
        /\ promise.error = <<ErrInvalidSvg>>
        /\ Returned = {}

(* the encoder of the current call could be set up: the GIF capability is  *)
(* there, or the runtime supports one of the recorder types                *)
EncoderReady ==
    IF call.settings.format = "GIF" THEN window.gifshot ELSE window.supported # {}

(* C6 as amended: for markup without an svg root no frame is ever captured *)
(* and convert never resolves; it is rejected with the invalid-markup      *)
(* error when the encoder could be set up, and with the set-up error (GIF  *)
(* capability not loadable, no recorder type supported) otherwise.         *)
C6_NoRootFails ==
    (call.svgString.root = "none" /\ call.pc # "idle") =>
        /\ Returned = {}
        /\ ~Succeeded
        /\ call.pc \in {"loadingScript", "settled"}
        /\ call.pc = "settled" =>
              /\ Failed
              /\ promise.blob = NoBlob
              /\ IF EncoderReady
                 THEN promise.error = <<ErrInvalidSvg>> /\ Len(captures) = 1
                 ELSE /\ promise.error \in {<<ErrCdn>>, <<ErrGifInit>>, <<ErrNotSupported>>}
                      /\ captures = <<>>

C6_Witness ==
    /\ call.svgString.root = "none"
    /\ call.settings.format = "GIF"
    /\ window.scriptLoads = 1
    /\ window.gifshot
    /\ promise.error = <<ErrInvalidSvg>>
    /\ captures = <<[ev |-> "call", index |-> 0, time |-> Rat(0, call.settings.fps)]>>

(* C7: a pending export always has an event still to come, so that it      *)
(* settles once every collaborator has answered.                           *)
C7_PendingCanProceed ==
    promise.state = "pending" => ENABLED ExportStep

(* the transitions of the shared state machine *)
PhaseSteps ==
    { <<"Idle", "ResolvingDimensions">>,
      <<"ResolvingDimensions", "Capturing">>,
      <<"Capturing", "Capturing">>,
      <<"Capturing", "Encoding">>,
      <<"Encoding", "Complete">>,
      <<"Idle", "Failed">>,
      <<"ResolvingDimensions", "Failed">>,
      <<"Capturing", "Failed">>,
      <<"Encoding", "Failed">> }

Terminal == Last(trail) \in {"Complete", "Failed"}

(* C8: the export goes through the phases in order, and in Complete or     *)
(* Failed it captures no frame, reports no progress and its recorder does  *)
(* nothing more.                                                           *)
C8_PhasesAndTerminal ==
    /\ [](\A k \in 1..(Len(trail) - 1) : <<trail[k], trail[k + 1]>> \in PhaseSteps)
    /\ [][(Terminal /\ call'.pc = "settled") =>
             /\ captures' = captures
             /\ progress' = progress
             /\ recorder' = recorder]_vars

(* C9: once generateVideo is entered, the recorder type is the first       *)
(* supported entry of the preference list, and a runtime that supports     *)
(* only video/webm gets video/webm and a recorder.                         *)
C9_FirstSupportedMime ==
    (call.pc # "idle" /\ call.settings.format # "GIF" /\ promise.error # <<ErrType>>) =>
        /\ window.supported # {} =>
              \E k \in DOMAIN mimeTypes :
                  /\ call.selectedMime = mimeTypes[k]
                  /\ mimeTypes[k] \in window.supported
                  /\ \A j \in 1..(k - 1) : mimeTypes[j] \notin window.supported
        /\ window.supported = {"video/webm"} =>
              /\ call.selectedMime = "video/webm"
              /\ promise.error # <<ErrNotSupported>>
              /\ recorder.mimeType = "video/webm"

C9_Witness ==
    /\ window.supported = {"video/webm"}
    /\ call.settings.format = "MP4"
    /\ recorder.state = "recording"
    /\ recorder.mimeType = "video/webm"

(* C10: an svg root with neither a width attribute nor a viewBox resolves  *)
(* to the default width 500 before scaling.                                *)
C10_DefaultWidth ==
    (/\ call.pc # "idle"
     /\ call.svgString.root # "none"
     /\ call.svgString.width = Null
     /\ call.svgString.viewBox = NoViewBox) =>
        /\ ~rawDimensions(call.svgString).threw
        /\ rawDimensions(call.svgString).width = Num(DefaultDim)
        /\ canvas.width = Round(DefaultDim * call.settings.scale2, 2)

(* C11: getDimensions never fails and always yields a pair of integers:    *)
(* whatever the markup, the call does not raise, both results are numbers, *)
(* and when no dimension can be read they are 500 times the scale.         *)
C11_DimensionsNeverFail ==
    call.pc # "idle" =>
        LET dims == getDimensions(call.svgString, call.settings.scale2)
            m == call.svgString
            unreadable(attr, k) ==
                parseFloat(Or(attr, "")).nan /\ (m.root # "svg" \/ m.viewBox = NoViewBox)
        IN  /\ ~dims.threw
            /\ promise.error # <<ErrType>>
            /\ ~dims.width.nan
            /\ ~dims.height.nan
            /\ unreadable(m.width, 1) =>
                  canvas.width = Round(DefaultDim * call.settings.scale2, 2)
            /\ unreadable(m.height, 2) =>
                  canvas.height = Round(DefaultDim * call.settings.scale2, 2)

(* the number an attribute text of the model denotes *)
AttrNumber(s) ==
    CASE s = "25" -> 25
      [] s = "33" -> 33
      [] s = "100" -> 100
      [] s = "400" -> 400

NumericAttrs == {"25", "33", "100", "400"}

(* c is x * scale2 / 2 rounded to the nearest integer, halves upwards *)
IsRounded(c, x, scale2) == 2 * c - 1 <= x * scale2 /\ x * scale2 < 2 * c + 1

(* C12: for a root with explicit numeric width w and height h the canvas   *)
(* is round(w * scale) by round(h * scale), whatever was resolved before;  *)
(* 400 x 400 at scale 1.5 gives 600 x 600.                                 *)
C12_ExplicitDimensionsScaled ==
    (/\ call.pc # "idle"
     /\ call.svgString.root # "none"
     /\ call.svgString.width \in NumericAttrs
     /\ call.svgString.height \in NumericAttrs) =>
        /\ promise.error # <<ErrType>>
        /\ IsRounded(canvas.width, AttrNumber(call.svgString.width), call.settings.scale2)
        /\ IsRounded(canvas.height, AttrNumber(call.svgString.height), call.settings.scale2)
        /\ (/\ call.svgString.width = "400"
            /\ call.svgString.height = "400"
            /\ call.settings.scale2 = 3) => canvas.width = 600 /\ canvas.height = 600

C12_Witness ==
    /\ run = 2
    /\ call.svgString.root = "svgNoNs"
    /\ call.svgString.width = "33"
    /\ call.svgString.height = "25"
    /\ call.settings.scale2 = 3
    /\ canvas.width = 50
    /\ canvas.height = 38

(* C13: the GIF path reports integers of 0..60 while it captures and of    *)
(* 60..100 while it encodes, the video path integers of 0..100; the GIF    *)
(* progress is about 60 (within one frame's share of it) when the capture  *)
(* ends and 100 when the encoding ends.                                    *)
C13_ProgressRanges ==
    call.pc # "idle" =>
        LET n == ExpectedFrames(call.settings)
        IN  IF call.settings.format = "GIF"
            THEN /\ \A k \in DOMAIN progress :
                       IF k <= n THEN progress[k] \in 0..CaptureShare
                       ELSE progress[k] \in CaptureShare..(CaptureShare + EncodeShare)
                 /\ (CaptureDone /\ n > 0) =>
                       (CaptureShare - progress[n]) * n <= CaptureShare + n
                 /\ Succeeded => Last(progress) = CaptureShare + EncodeShare
            ELSE \A k \in DOMAIN progress : progress[k] \in 0..VideoShare

(* C14: when the GIF capability reports an error to the completion         *)
(* callback, the export is rejected with an error that carries the         *)
(* capability's message, and it does not resolve with a blob.              *)
C14_GifErrorRejects ==
    (call.gifObj # <<>> /\ call.gifObj[1].error) =>
        /\ call.pc = "settled"
        /\ Failed
        /\ promise.error = <<ErrGifPrefix, call.gifObj[1].errorMsg>>
        /\ promise.blob = NoBlob

C14_Witness ==
    /\ call.gifObj = <<[error |-> TRUE, errorMsg |-> "otherErrorMsg"]>>
    /\ Len(call.frames) = 2
    /\ promise.error = <<ErrGifPrefix, "otherErrorMsg">>

EncoderUnavailable == {<<ErrCdn>>, <<ErrGifInit>>}

(* C15: one GIF export fetches the GIF capability at most once: not at all *)
(* when it is already loaded, exactly once otherwise; when that fetch      *)
(* fails (load error, or the capability still absent after the load) the   *)
(* export fails with the encoder-unavailable error before any frame is     *)
(* captured.                                                               *)
C15_OneFetchPerExport ==
    (/\ call.pc # "idle"
     /\ call.settings.format = "GIF"
     /\ promise.error # <<ErrType>>) =>
        /\ call.scriptsInjected = IF call.gifshotFound THEN 0 ELSE 1
        /\ call.pc = "loadingScript" => captures = <<>>
        /\ (~call.gifshotFound /\ ~window.gifshot /\ call.pc # "loadingScript") =>
              /\ Failed
              /\ promise.error \in EncoderUnavailable
        /\ promise.error \in EncoderUnavailable =>
              /\ ~call.gifshotFound
              /\ call.scriptsInjected = 1
              /\ captures = <<>>
              /\ call.frames = <<>>
              /\ call.pc = "settled"

C15_Witness ==
    /\ run = 2
    /\ window.scriptLoads = 2
    /\ call.scriptsInjected = 1
    /\ promise.error = <<ErrGifInit>>
    /\ captures = <<>>

(* the current call has not settled *)
InFlight == call.pc \notin {"idle", "settled"}

(* C16: through the Export button at most one export is in flight: a       *)
(* convert begins only when no earlier call is unsettled or unhandled, and *)
(* while a call is in flight the canvas keeps the dimensions it got at the *)
(* call's start.                                                           *)
C16_OneExportInFlight ==
    /\ [](app.isProcessing <=> call.pc # "idle")
    /\ [][/\ run' # run => (call.pc = "idle" /\ call'.pc # "idle")
          /\ (InFlight /\ run' = run) =>
                /\ canvas'.width = canvas.width
                /\ canvas'.height = canvas.height
                /\ call'.svgString = call.svgString
                /\ call'.settings = call.settings]_vars

C16_Witness ==
    /\ run = 2
    /\ app.isProcessing
    /\ call.pc = "pacing"
    /\ call.i = 1
    /\ canvas.width = 600
    /\ canvas.height = 600
    /\ canvas.layers # <<>>

(* the hint service failed: the request or the parsing of its answer raised *)
HintFailed == app.hint # <<>> /\ app.hint[1].kind # "object"

(* C17: when the hint service fails, analyzeSvg does not raise: it returns *)
(* hasSmil=false, hasCssAnimation=false, viewBox=null, width=500,          *)
(* height=500, suggestedDuration=5 (seconds); no step of the analysis      *)
(* touches the converter or the export in flight, and an export after it   *)
(* captures its ceil(fps * duration) frames as any other.                  *)
C17_HintFailureHarmless ==
    /\ [](HintFailed =>
            /\ ~app.analysisThrew
            /\ app.analysis = <<[hasSmil |-> FALSE, hasCssAnimation |-> FALSE,
                                 viewBox |-> Null, width |-> 500, height |-> 500,
                                 suggestedDuration |-> 2 * 5]>>)
    /\ [](Succeeded => Cardinality(Returned) = ExpectedFrames(call.settings))
    /\ [][(app'.hint # app.hint \/ app'.analyzing # app.analyzing) =>
             /\ UNCHANGED <<window, canvas, liveContainer, objectUrls, recorder, orphans,
                            call, promise, progress, captures, trail, run>>
             /\ app'.isProcessing = app.isProcessing]_vars

C17_Witness ==
    /\ HintFailed
    /\ app.hint[1].kind = "notJson"
    /\ Succeeded
    /\ call.settings.dur2 = 10
    /\ call.settings.fps = 1
    /\ Cardinality(Returned) = 5

(* the animation time frame data was rasterized at *)
SeekTime(frame) == Last(frame.layers).src[1].css[1][2]

(* C18: in a GIF export createGIF is called only after all totalFrames     *)
(* frames have been captured, and once; it gets those frames in index      *)
(* order, numFrames = totalFrames and interval = 1 / fps.                  *)
C18_AssembleAfterCapture ==
    (call.pc # "idle" /\ call.settings.format = "GIF") =>
        LET n == ExpectedFrames(call.settings)
        IN  /\ Len(call.gifArgs) <= 1
            /\ call.pc \in {"loadingScript", "loadingImage"} => call.gifArgs = <<>>
            /\ Succeeded => Len(call.gifArgs) = 1
            /\ call.gifArgs # <<>> =>
                  LET args == call.gifArgs[1]
                  IN  /\ Cardinality(Returned) = n
                      /\ args.numFrames = n
                      /\ Len(args.images) = n
                      /\ \A k \in 1..Len(args.images) :
                            RatEq(SeekTime(args.images[k]), Rat(k - 1, call.settings.fps))
                      /\ args.interval.n * call.settings.fps = args.interval.d

C18_Witness ==
    /\ call.settings.format = "GIF"
    /\ call.settings.fps = 2
    /\ call.pc = "assembling"
    /\ Len(call.gifArgs) = 1
    /\ Len(call.gifArgs[1].images) = 3
    /\ RatEq(SeekTime(call.gifArgs[1].images[3]), Rat(1, 1))

(* C19: in a video export the recorder is started before frame 0 is        *)
(* captured and stopped only after all frames are drawn and the pacing     *)
(* delay after the last one has elapsed; the blob is produced only after   *)
(* the stop, from the chunks delivered up to then.                         *)
C19_RecorderBracketsCapture ==
    (call.pc # "idle" /\ call.settings.format # "GIF") =>
        LET n == ExpectedFrames(call.settings)
        IN  /\ captures # <<>> => recorder.state \in {"recording", "inactive"}
            /\ recorder.state = "inactive" =>
                  /\ Cardinality(Returned) = n
                  /\ call.timersFired = n
                  /\ call.pc \in {"stopping", "settled"}
            /\ recorder.state # "inactive" =>
                  /\ promise.blob = NoBlob
                  /\ ~Succeeded
            /\ call.pc = "stopping" => promise.state = "pending"
            /\ Succeeded =>
                  /\ promise.blob.parts = recorder.chunks
                  /\ promise.blob.type = recorder.mimeType

C19_Witness ==
    /\ call.settings.format = "MP4"
    /\ call.pc = "stopping"
    /\ recorder.state = "inactive"
    /\ call.timersFired = 3
    /\ Len(captures) = 6
    /\ promise.state = "pending"

(* C20: in a video export every draw is followed by a wait of at least one *)
(* frame interval plus a margin before the next draw or the stop, so a     *)
(* recorder that samples the canvas once per frame interval has seen every *)
(* drawn frame before the next one is drawn, and all totalFrames of them   *)
(* when it is stopped.                                                     *)
C20_EveryFrameObserved ==
    (clock.on /\ call.pc # "idle") =>
        LET n == ExpectedFrames(call.settings)
        IN  /\ call.pc = "pacing" => clock.deadline - clock.drawnAt > FrameInterval
            /\ call.pc = "loadingImage" => clock.seen = 0..(call.i - 1)
            /\ recorder.state = "inactive" =>
                  /\ clock.seen = 0..(n - 1)
                  /\ recorder.samples >= n
                  /\ clock.now >= n * FrameInterval

C20_Witness ==
    /\ clock.on
    /\ Succeeded
    /\ call.settings.fps = 2
    /\ call.settings.dur2 = 3
    /\ clock.seen = {0, 1, 2}
    /\ recorder.samples = 3

(* C21: outside a captureFrame call (after each one has returned or        *)
(* raised) no object URL of a frame is left and the render sandbox is      *)
(* empty.                                                                  *)
C21_SandboxResetAfterFrame ==
    call.pc # "loadingImage" =>
        /\ objectUrls = 0
        /\ liveContainer.content = <<>>

(* the errors an export can fail with when no frame capture failed *)
SetupErrors == {<<ErrType>>, <<ErrCdn>>, <<ErrGifInit>>, <<ErrNotSupported>>}

(* C22: for markup whose SMIL seek is unavailable or raises, captureFrame  *)
(* does not fail on the seek: the frame being captured carries the CSS     *)
(* override of its time and no SMIL seek, every drawn frame likewise, and  *)
(* the only error a frame capture ends with is the image decode failure.   *)
C22_SmilFailureTolerated ==
    (/\ call.pc # "idle"
     /\ call.svgString.root # "none"
     /\ call.svgString.smil \in {"raises", "absent"}) =>
        /\ call.pc = "loadingImage" =>
              liveContainer.content =
                  <<[src |-> call.svgString, smil |-> <<>>,
                     css |-> <<<<"-", Rat(call.i, call.settings.fps), "s">>>>]>>
        /\ FrameFailed => promise.error = <<ErrImage>>
        /\ Failed =>
              \/ promise.error \in SetupErrors \cup {<<ErrImage>>}
              \/ promise.error[1] = ErrGifPrefix
        /\ \A k \in DOMAIN call.frames :
              /\ Last(call.frames[k].layers).src[1].smil = <<>>
              /\ RatEq(SeekTime(call.frames[k]), Rat(k - 1, call.settings.fps))

C22_Witness ==
    /\ call.svgString.smil = "raises"
    /\ call.settings.format = "GIF"
    /\ Succeeded
    /\ Len(call.frames) = 3
    /\ Len(captures) = 6

(* the seeked markup of markup m at time t, as a function of the two alone *)
SeekedMarkup(m, t) ==
    [src |-> m,
     smil |-> IF m.smil = "ok" THEN <<t>> ELSE <<>>,
     css |-> <<<<"-", t, "s">>>>]

(* C23: the seeked markup of a captureFrame call is a function of the      *)
(* original markup and the requested time alone: whatever was captured     *)
(* before, in this export or an earlier one, the sandbox holds one copy of *)
(* the original seeked to the requested time, and so does every frame that *)
(* was drawn from it.                                                      *)
C23_SeekDependsOnMarkupAndTime ==
    call.pc # "idle" =>
        /\ call.pc = "loadingImage" =>
              /\ Last(captures).ev = "call"
              /\ liveContainer.content =
                    <<SeekedMarkup(call.svgString, Last(captures).time)>>
        /\ \A k \in Returned :
              captures[k].index = call.i =>
                  Last(canvas.layers).src = <<SeekedMarkup(call.svgString, captures[k].time)>>
        /\ \A k \in DOMAIN call.frames :
              Last(call.frames[k].layers).src =
                  <<SeekedMarkup(call.svgString, Rat(k - 1, call.settings.fps))>>

C23_Witness ==
    /\ run = 2
    /\ call.pc = "loadingImage"
    /\ call.i = 2
    /\ call.svgString.smil = "ok"
    /\ canvas.layers # <<>>
    /\ liveContainer.content[1].smil = <<Rat(2, 2)>>

(* the frame on the canvas was composited over the opaque fill *)
HasFill(layers) == \E k \in DOMAIN layers : layers[k].kind = "fill"

(* C24: in an MP4 export every frame is composited over the opaque fill,   *)
(* also when settings.transparent is set; the flag suppresses the fill for *)
(* GIF and WEBM only.                                                      *)
C24_OpaqueFormatFilled ==
    (call.pc # "idle" /\ Returned # {}) =>
        IF call.settings.format = "MP4"
        THEN HasFill(canvas.layers)
        ELSE HasFill(canvas.layers) <=> ~call.settings.transparent

(* what a canvas holds after clear, fill unless transparent, and one draw *)
OneFrameOn(layers, transparent) ==
    /\ Len(layers) = IF transparent THEN 1 ELSE 2
    /\ ~transparent => layers[1].kind = "fill"
    /\ Last(layers).kind = "image"

(* C25: every frame is drawn on a cleared canvas, over the white fill      *)
(* exactly when settings.transparent is false, and read back after the     *)
(* draw: the canvas and every frame read from it hold the (optional) fill  *)
(* and the one image of that frame, nothing of a frame before.             *)
C25_ClearFillDrawRead ==
    (call.pc # "idle" /\ Returned # {}) =>
        /\ OneFrameOn(canvas.layers, call.settings.transparent)
        /\ \A k \in DOMAIN call.frames :
              /\ OneFrameOn(call.frames[k].layers, call.settings.transparent)
              /\ RatEq(SeekTime(call.frames[k]), Rat(k - 1, call.settings.fps))

C25_Witness ==
    /\ call.settings.format = "GIF"
    /\ ~call.settings.transparent
    /\ Len(call.frames) = 3
    /\ call.frames[3].layers[1].kind = "fill"
    /\ Len(canvas.layers) = 2
    /\ run = 2

(* C26: the GIF capability is loaded init-once: over any sequence of       *)
(* exports at most one remote fetch is attempted, a failed one being       *)
(* remembered.                                                             *)
C26_AtMostOneFetchEver ==
    window.scriptLoads <= 1

(* C27: every fps and duration the sliders and Smart Detect can write are  *)
(* positive numbers, so every export started from the UI has               *)
(* totalFrames >= 1.                                                       *)
C27_UiSettingsYieldFrames ==
    /\ app.fps \in Nat \ {0}
    /\ app.duration \in Nat \ {0}
    /\ call.pc # "idle" =>
          /\ call.settings.fps > 0
          /\ call.settings.dur2 > 0
          /\ call.totalFrames >= 1
          /\ 2 * call.totalFrames >= call.settings.fps * call.settings.dur2

C27_Witness ==
    /\ app.hint # <<>>
    /\ app.hint[1].result.suggestedDuration = -2
    /\ call.pc = "loadingImage"
    /\ call.settings.dur2 = DefaultDuration2
    /\ call.settings.fps = 60
    /\ call.totalFrames = 240

(* C28: an export that has ended leaves no recorder in the recording       *)
(* state: when a video export fails after recorder.start(), the recorder   *)
(* has been stopped.                                                       *)
C28_RecorderStoppedOnFailure ==
    /\ call.pc = "settled" => recorder.state # "recording"
    /\ orphans = 0

(* C29: whenever resultUrl is non-null it was produced from the text the   *)
(* editor holds, under any interleaving of edits and file imports with an  *)
(* export in flight.                                                       *)
C29_ResultMatchesEditor ==
    app.resultUrl # <<>> => app.resultUrl[1].from = app.svgCode

(* C30: every startConversion call whose convert promise has settled ends  *)
(* with isProcessing false and with exactly one of resultUrl and error set *)
(* by the call: resultUrl, for the text the call rendered, on success and  *)
(* error on failure.                                                       *)
C30_ExactlyOneOutcome ==
    [][(call.pc = "settled" /\ call'.pc = "idle") =>
         /\ ~app'.isProcessing
         /\ promise.state = "resolved" =>
              /\ app'.resultUrl = <<[from |-> call.svgString]>>
              /\ app'.error = <<>>
         /\ promise.state = "rejected" =>
              /\ app'.error = errorMessage(promise.error)
              /\ app'.error # <<>> /\ app'.error[1] # ""
              /\ app'.resultUrl = <<>>]_vars

(* a second export has failed on a frame the image decoder rejected and    *)
(* its await has returned: the message is there and no result is           *)
C30_Witness ==
    /\ run = 2
    /\ call.pc = "idle"
    /\ ~app.isProcessing
    /\ app.error = <<ErrImage>>
    /\ app.resultUrl = <<>>

====
